---- MODULE Spec2Model ----
(***************************************************************************)
(* Bulk Email Sender (PyQt5): the background dispatch worker               *)
(* (SendWorker, src/Bulk-Email-Sender.py lines 140-217) and the part of    *)
(* MainWindow that starts it and releases it (lines 635-669).              *)
(*                                                                         *)
(* The specifications share the worker's actions:                          *)
(*   Spec        one SendWorker, constructed with any settings, recipient  *)
(*               list and attachment list, run once; stop() may be called  *)
(*               at any moment, every SMTP call may succeed or raise, and  *)
(*               attachment files may come and go.                         *)
(*   SpecBuild   one SendWorker with settings that pass the checks, any    *)
(*               subject, body and attachment list, never cancelled: the   *)
(*               messages it builds and hands to the transport.            *)
(*   SpecEmails  the recipient store: save_emails with any list, and       *)
(*               load_emails as on_send_requested calls it.                *)
(*   SpecApp     MainWindow: the settings and the recipient list are       *)
(*               saved at any moment, on_send_requested builds the worker  *)
(*               from the stores, the log box receives the worker's        *)
(*               signals, and cleanup_thread drops the worker.             *)
(***************************************************************************)
EXTENDS Integers, Sequences, FiniteSets, TLC

(* ------------------------------ bounds --------------------------------- *)
\* longest recipient list
MaxRcpt == 2
\* longest attachment list
MaxAtt == 1
\* send requests MainWindow accepts in one behaviour
MaxRuns == 2
\* longest stored recipient list
MaxStored == 2
\* longest attachment list of the runs whose messages are looked at
MaxFiles == 2
\* longest list load_emails is given when it is looked at on its own
MaxRaw == 3

(* ------------------------------ values --------------------------------- *)
\* Text that the code trims, parses or compares is a sequence of characters.
AddrA == <<"a", "@", "x">>
AddrB == <<"b", "@", "x">>
AddrC == <<"c", "@", "x">>
AddrD == <<"d", "@", "x">>
AllAddrs == << AddrA, AddrB, AddrC, AddrD >>
AllFiles == << <<"f", "1">>, <<"f", "2">>, <<"f", "3">> >>
Digits == {"0", "1", "2", "3", "4", "5", "6", "7", "8", "9"}
Whitespace == {" ", "\t", "\n"}
\* the stored smtp_port, as the text of its JSON value
Ports == { <<"5", "8", "7">>, <<"a", "b", "c">> }
Hosts == {"", "smtp.x.com"}
Users == {"", "me@x.com"}
Passwords == {"", "secret"}
\* entries of a stored recipient list, before load_emails has cleaned it
RawEntries == { AddrA, <<" ">> \o AddrA, AddrB \o <<" ">>, <<" ">>, <<>> }

Min(a, b) == IF a < b THEN a ELSE b
Reverse(s) == [ i \in 1..Len(s) |-> s[Len(s) + 1 - i] ]

\* the recipient lists a worker is constructed with: no entry twice, each
\* trimmed and non-empty, in either order of the address pool
RecipientLists ==
    LET n == Min(MaxRcpt, Len(AllAddrs))
        pool == SubSeq(AllAddrs, 1, n)
    IN  { SubSeq(pool, 1, k) : k \in 0..n } \cup
        { SubSeq(Reverse(pool), 1, k) : k \in 0..n }
AttachmentLists ==
    { SubSeq(AllFiles, 1, n) : n \in 0..Min(MaxAtt, Len(AllFiles)) }
FileSet == { AllFiles[i] : i \in 1..Min(MaxAtt, Len(AllFiles)) }
\* the recipient lists of the runs whose messages are looked at
BuildRecipientLists ==
    { SubSeq(AllAddrs, 1, k) : k \in 0..Min(MaxRcpt, Len(AllAddrs)) }
BuildAttachmentLists ==
    { SubSeq(AllFiles, 1, n) : n \in 0..Min(MaxFiles, Len(AllFiles)) }
BuildFileSet == { AllFiles[i] : i \in 1..Min(MaxFiles, Len(AllFiles)) }
RECURSIVE SeqsUpTo(_, _)
SeqsUpTo(S, n) ==
    IF n = 0 THEN { <<>> }
    ELSE LET shorter == SeqsUpTo(S, n - 1)
         IN  shorter \cup
             { Append(s, x) : s \in { t \in shorter : Len(t) = n - 1 }, x \in S }
\* the lists save_emails is given when it is looked at on its own
StoredLists == SeqsUpTo(RawEntries, MaxStored)
\* the lists load_emails reads when it is looked at on its own
RawLists == SeqsUpTo(RawEntries, MaxRaw)

\* what the recipients text box may hold when Save is clicked: nothing, or
\* numbered lines as set_emails writes them and a line typed by hand
EditorTexts ==
    { <<>>,
      << <<"1", ".", " ">> \o AddrA >>,
      << <<"1", ".", " ">> \o AddrA, AddrB \o <<" ">> >> }
\* what emails.json may hold when MainWindow starts: nothing, or entries
\* that are untrimmed and repeated
AppStoredLists ==
    { <<>>,
      << <<" ">> \o AddrA >>,
      << <<" ">> \o AddrA, AddrB \o <<" ">>, AddrA >> }
\* the attachment lists of the send page
AppAttachmentLists == { <<>>, << AllFiles[1] >> }

SettingsSet ==
    [ smtp_host : Hosts, smtp_port : Ports, use_tls : BOOLEAN,
      use_ssl : BOOLEAN, username : Users, password : Passwords ]
DefaultSettings ==
    [ smtp_host |-> "", smtp_port |-> <<"5", "8", "7">>, use_tls |-> TRUE,
      use_ssl |-> FALSE, username |-> "", password |-> "" ]

\* the subject line and the plain-text body typed on the send page
Subjects == {"", "Hello"}
Bodies == {"Dear all"}
\* the subject and body of the runs whose message text is not looked at
DefaultSubject == "Hello"
DefaultBody == "Dear all"
NoMsg == [ From |-> "", To |-> <<>>, Subject |-> "", body |-> "", atts |-> <<>> ]
NoStop == [ pc |-> "never", idx |-> 0 ]

VARIABLES
    \* the stores on disk
    stored_cfg,       \* config.json
    stored_emails,    \* emails.json, the "recipients" list
    readable,         \* the attachment files that can be opened now
    \* MainWindow
    worker,           \* self.worker: 0 is None, else the run's number
    thread,           \* self.thread: 0 is None, else the run's number
    threadRunning,    \* the QThread of the last started run still runs
    pendingCleanups,  \* thread.finished emissions not yet handled
    aborted,          \* the process was terminated by Qt
    runs,             \* workers constructed so far
    \* the send page's log box, filled by the slots of lines 658-661
    log,              \* the lines appended so far
    delivered,        \* progress emissions the main thread has handled
    \* SendWorker
    smtp_cfg, recipients, subject, body, attachments,
    _stop,
    \* SendWorker.run: position and locals
    pc, idx, att_i, msg, session, exc,
    \* what the worker did
    events,           \* the signals emitted, in emission order
    calls,            \* the calls made on the SMTP transport, in order
    firstStop         \* where run() was when stop() was first called

storeVars  == << stored_cfg, stored_emails >>
mainVars   == << worker, thread, threadRunning, pendingCleanups, aborted, runs >>
sinkVars   == << log, delivered >>
inputVars  == << smtp_cfg, recipients, subject, body, attachments >>
runVars    == << pc, idx, att_i, msg, session, exc >>
vars == << stored_cfg, stored_emails, readable, worker, thread, threadRunning,
           pendingCleanups, aborted, runs, log, delivered, smtp_cfg, recipients,
           subject, body, attachments, _stop, pc, idx, att_i, msg, session, exc, events, calls, firstStop >>

(* ------------------------------ events --------------------------------- *)
Ev(sig, kind, i, n, who) ==
    [ sig |-> sig, kind |-> kind, idx |-> i, total |-> n, who |-> who ]
\* error.emit("SMTP settings incomplete. Please configure SMTP.")
IncompleteError == Ev("error", "incomplete", 0, 0, <<>>)
\* error.emit(f"SMTP error: {e}")
SmtpError == Ev("error", "smtp", 0, 0, <<>>)
\* finished.emit()
Finished == Ev("finished", "finished", 0, 0, <<>>)
\* progress.emit("Sending cancelled by user.")
Cancelled == Ev("progress", "cancelled", 0, 0, <<>>)
\* progress.emit(f"Attachment error: {file} ({e}) - skipping this file.")
AttachmentError(file) == Ev("progress", "attachment", 0, 0, file)
\* a faulty variant: the index counted from 0
SentEvent_ZeroBased(i, n, rcpt) == Ev("progress", "sent", i - 1, n, rcpt)
\* progress.emit(f"[{idx}/{total}] Sent to {rcpt}")
SentEvent(i, n, rcpt) == Ev("progress", "sent", i, n, rcpt)
\* a faulty variant: the failure line carries the list length as its index
FailedEvent_IndexIsTotal(i, n, rcpt) == Ev("progress", "failed", n, n, rcpt)
\* progress.emit(f"[{idx}/{total}] Failed to {rcpt}: {e}")
FailedEvent(i, n, rcpt) == Ev("progress", "failed", i, n, rcpt)

\* the line a slot appends to the log box for an emission: the progress
\* text as it is (line 658), "ERROR: " + msg (line 659), "\nDone." (line 661)
LogEntry(e) ==
    IF e.sig = "finished" THEN Ev("log", "done", 0, 0, <<>>)
    ELSE IF e.sig = "error" THEN Ev("log", e.kind, 0, 0, <<>>)
    ELSE e
\* progress is connected to append_log, a method of a widget of the main
\* thread: the call is queued to that thread
HasQueuedSlot(e) == e.sig = "progress"
\* error and finished are connected to lambdas: PyQt's proxy for a slot
\* that is no QObject method lives in the emitter's thread, the worker's
\* since moveToThread at line 656, so emit calls the lambda at once
HasDirectSlot(e) == e.sig \in {"error", "finished"}
\* what the lambdas append while the worker emits the events of one step
DirectLog(emitted) ==
    LET direct == SelectSeq(emitted, HasDirectSlot)
    IN  [ i \in 1..Len(direct) |-> LogEntry(direct[i]) ]

Call(op, to, m, res) == [ op |-> op, to |-> to, msg |-> m, res |-> res ]

(* --------------------------- pure functions ---------------------------- *)
\* int(smtp_port) returns a number: the text is a run of digits
IntParses(s) == Len(s) > 0 /\ \A i \in DOMAIN s : s[i] \in Digits

\* str.strip(): leading and trailing whitespace removed
RECURSIVE LStrip(_)
LStrip(s) ==
    IF s = <<>> THEN s
    ELSE IF Head(s) \in Whitespace THEN LStrip(Tail(s)) ELSE s
RECURSIVE RStrip(_)
RStrip(s) ==
    IF s = <<>> THEN s
    ELSE IF s[Len(s)] \in Whitespace THEN RStrip(SubSeq(s, 1, Len(s) - 1)) ELSE s
Strip(s) == RStrip(LStrip(s))

\* the loop of load_emails and save_emails: each entry trimmed, kept if it
\* is non-empty and was not kept before
RECURSIVE Uniq(_, _)
Uniq(lst, uniq) ==
    IF lst = <<>> THEN uniq
    ELSE LET e2 == Strip(Head(lst))
         IN  IF e2 # <<>> /\ \A i \in DOMAIN uniq : uniq[i] # e2
             THEN Uniq(Tail(lst), Append(uniq, e2))
             ELSE Uniq(Tail(lst), uniq)
\* a faulty variant: every trimmed non-empty entry is kept
LoadEmails_KeepsDuplicates(data) ==
    SelectSeq([ i \in DOMAIN data |-> Strip(data[i]) ], LAMBDA e : e # <<>>)
\* ConfigManager.load_emails().get("recipients", [])
LoadEmails(data) == Uniq(data, <<>>)
\* the list ConfigManager.save_emails(lst) writes to emails.json
SaveEmails(lst) == Uniq(lst, <<>>)

\* str.isdigit(): at least one character, and all of them digits
IsDigit(s) == Len(s) > 0 /\ \A i \in DOMAIN s : s[i] \in Digits
\* get_emails, lines 261-267: a line "<digits>. rest" loses its numbering
Unnumbered(line) ==
    IF \E k \in DOMAIN line : line[k] = "."
    THEN LET k == CHOOSE k \in DOMAIN line :
                     line[k] = "." /\ \A j \in 1..(k - 1) : line[j] # "."
             left == SubSeq(line, 1, k - 1)
             right == SubSeq(line, k + 1, Len(line))
         IN  IF IsDigit(Strip(left)) THEN Strip(right) ELSE line
    ELSE line
\* EmailListPage.get_emails: the lines of the text box, trimmed, without
\* numbering, then passed through the same loop as load_emails
GetEmails(raw) == Uniq([ i \in DOMAIN raw |-> Unnumbered(Strip(raw[i])) ], <<>>)

\* not host or not username or not password
SettingsIncomplete(cfg) ==
    cfg.smtp_host = "" \/ cfg.username = "" \/ cfg.password = ""

\* a faulty variant: use_ssl is not looked at
UseStartTls_IgnoresSsl(cfg) == cfg.use_tls
\* use_tls and not use_ssl
UseStartTls(cfg) == cfg.use_tls /\ ~cfg.use_ssl

\* SMTP_SSL(host, port, context) if use_ssl else SMTP(host, port)
ConnectOp(cfg) == IF cfg.use_ssl THEN "SMTP_SSL" ELSE "SMTP"

\* a faulty variant: the flag is never looked at
CancelObserved_Never(flag) == FALSE
\* if self._stop:
CancelObserved(flag) == flag

\* a faulty variant: the break is missing
AfterCancel_Continue == "build"
\* where run() goes after emitting the cancellation line: break
AfterCancel == "exit"

\* a faulty variant: no inner try, the failure leaves the with block
AfterSendFailure_Aborts == [ pc |-> "exit", exc |-> TRUE ]
\* where run() goes when sendmail (or the build) raised: the inner except
\* reports it and the loop goes on, with no exception left in flight
AfterSendFailure == [ pc |-> "loop", exc |-> FALSE ]

\* a faulty variant: the login failure is swallowed
AfterLoginFailure_Swallowed == [ pc |-> "loop", exc |-> FALSE ]
\* where run() goes when login raised: out of the with block, exception in flight
AfterLoginFailure == [ pc |-> "exit", exc |-> TRUE ]

\* a faulty variant: the session is closed although it was never opened
AfterConnectFailure_Close == "exit"
\* where run() goes when the constructor raised: server was never bound, so
\* the with block is not entered and nothing is closed
AfterConnectFailure == "except"

\* a faulty variant: the files are opened once, for the first message, and
\* what was read then is reused for every later message
CanOpen_OnlyForFirst(file) ==
    IF \E k \in DOMAIN calls : calls[k].op = "sendmail"
    THEN LET first == CHOOSE k \in DOMAIN calls :
                         /\ calls[k].op = "sendmail"
                         /\ \A h \in 1..(k - 1) : calls[h].op # "sendmail"
         IN  \E a \in DOMAIN calls[first].msg.atts : calls[first].msg.atts[a] = file
    ELSE file \in readable
\* lines 165-167: open(file, 'rb') and f.read() succeed when the file can be
\* read at this moment, for this message
CanOpen(file) == file \in readable

\* a faulty variant: the file is left out without a word
OnUnreadable_Silent(file) == << >>
\* what _build_message emits when open() or read() raised for the file
OnUnreadable(file) == << AttachmentError(file) >>

\* a faulty variant: the session is left open when the list is used up
AfterLoopEnd_NoClose == "finally"
\* where run() goes when the for statement has no recipient left: the end
\* of the with block
AfterLoopEnd == "exit"

\* the index printed for the iteration: enumerate(..., start=1)
EnumIdx(done) == done + 1

(* ------------------------------- Init ---------------------------------- *)
NoWorkerState ==
    /\ smtp_cfg = DefaultSettings /\ recipients = <<>>
    /\ subject = "" /\ body = "" /\ attachments = <<>>
    /\ _stop = FALSE
    /\ pc = "none" /\ idx = 0 /\ att_i = 0 /\ msg = NoMsg
    /\ session = "none" /\ exc = FALSE
    /\ events = <<>> /\ calls = <<>> /\ firstStop = NoStop

\* SendWorker.__init__: the arguments are kept, _stop is False
Constructed(cfg, rcpts, subj, text, atts) ==
    /\ smtp_cfg = cfg /\ recipients = rcpts
    /\ subject = subj /\ body = text /\ attachments = atts
    /\ _stop = FALSE
    /\ pc = "init" /\ idx = 0 /\ att_i = 0 /\ msg = NoMsg
    /\ session = "none" /\ exc = FALSE
    /\ events = <<>> /\ calls = <<>> /\ firstStop = NoStop

\* one SendWorker on its thread, run() not yet called
Init ==
    /\ stored_cfg = DefaultSettings /\ stored_emails = <<>>
    /\ readable \in SUBSET FileSet
    /\ worker = 1 /\ thread = 1 /\ threadRunning = TRUE
    /\ pendingCleanups = 0 /\ aborted = FALSE /\ runs = 1
    /\ log = <<>> /\ delivered = 0
    /\ \E cfg \in SettingsSet, rcpts \in RecipientLists, atts \in AttachmentLists :
          Constructed(cfg, rcpts, DefaultSubject, DefaultBody, atts)

\* settings that pass the checks of lines 176-186: the defaults (port 587,
\* STARTTLS) with host, username and password filled in
CompleteSettings ==
    [ DefaultSettings EXCEPT !.smtp_host = "smtp.x.com", !.username = "me@x.com",
                             !.password = "secret" ]

\* what the settings form holds when Save is clicked, and what config.json
\* holds when the application starts: nothing filled in, or complete
\* settings with STARTTLS or with implicit TLS
AppSettings ==
    { DefaultSettings, CompleteSettings, [ CompleteSettings EXCEPT !.use_ssl = TRUE ] }

\* one SendWorker with those settings and any subject, body and attachment
\* list
InitBuild ==
    /\ stored_cfg = DefaultSettings /\ stored_emails = <<>>
    /\ readable \in SUBSET BuildFileSet
    /\ worker = 1 /\ thread = 1 /\ threadRunning = TRUE
    /\ pendingCleanups = 0 /\ aborted = FALSE /\ runs = 1
    /\ log = <<>> /\ delivered = 0
    /\ \E rcpts \in BuildRecipientLists, subj \in Subjects, text \in Bodies,
          atts \in BuildAttachmentLists :
          Constructed(CompleteSettings, rcpts, subj, text, atts)

(* ---------------------- SendWorker._build_message ---------------------- *)
\* a faulty variant: every message is addressed to the head of the list
BuildHeaders_ToFirst(sender, recipient) ==
    [ From |-> sender, To |-> recipients[1], Subject |-> subject, body |-> body,
      atts |-> <<>> ]
\* lines 158-162: From, To and Subject are set and the body is attached
BuildHeaders(sender, recipient) ==
    [ From |-> sender, To |-> recipient, Subject |-> subject, body |-> body,
      atts |-> <<>> ]

(* --------------------------- SendWorker.stop --------------------------- *)
stop ==
    /\ pc # "none" /\ ~aborted
    /\ _stop' = TRUE
    /\ firstStop' = IF firstStop = NoStop THEN [ pc |-> pc, idx |-> idx ]
                    ELSE firstStop
    /\ UNCHANGED << sinkVars, storeVars, readable, mainVars, inputVars, runVars, events, calls >>

(* --------------------------- SendWorker.run ---------------------------- *)
\* a faulty variant: the settings are read from the store again
RunSettings_Reloaded == stored_cfg
\* self.smtp_cfg, where run() gets its settings (lines 176-181)
RunSettings == smtp_cfg

\* lines 176-188: read the settings; int() raises out of run() on a port that
\* is no number; incomplete settings are reported and end the run
run_begin ==
    /\ pc = "init" /\ ~aborted
    /\ IF ~IntParses(RunSettings.smtp_port)
       THEN /\ pc' = "raised"
            /\ UNCHANGED events
       ELSE IF SettingsIncomplete(RunSettings)
       THEN /\ events' = events \o << IncompleteError, Finished >>
            /\ pc' = "done"
       ELSE /\ pc' = "connect"
            /\ UNCHANGED events
    /\ log' = log \o DirectLog(SubSeq(events', Len(events) + 1, Len(events')))
    /\ UNCHANGED << delivered, storeVars, readable, mainVars, inputVars, _stop, idx, att_i,
                    msg, session, exc, calls, firstStop >>

\* lines 191-195: the constructor connects (and, for SMTP_SSL, handshakes)
connect ==
    /\ pc = "connect" /\ ~aborted
    /\ \E ok \in BOOLEAN :
          /\ calls' = Append(calls, Call(ConnectOp(RunSettings), <<>>, NoMsg,
                                         IF ok THEN "ok" ELSE "raised"))
          /\ IF ok THEN /\ session' = "open" /\ pc' = "ehlo" /\ exc' = FALSE
                   ELSE /\ session' = session /\ pc' = AfterConnectFailure
                        /\ exc' = TRUE
    /\ UNCHANGED << sinkVars, storeVars, readable, mainVars, inputVars, _stop, idx, att_i,
                    msg, events, firstStop >>

\* a call on the open session that raises leaves the with block
SessionCall(op, okPc, failed) ==
    \E ok \in BOOLEAN :
       /\ calls' = Append(calls, Call(op, <<>>, NoMsg, IF ok THEN "ok" ELSE "raised"))
       /\ IF ok THEN /\ pc' = okPc /\ exc' = FALSE
                ELSE /\ pc' = failed.pc /\ exc' = failed.exc

\* line 196: server.ehlo()
ehlo ==
    /\ pc = "ehlo" /\ ~aborted
    /\ SessionCall("ehlo", IF UseStartTls(RunSettings) THEN "starttls" ELSE "login",
                   [ pc |-> "exit", exc |-> TRUE ])
    /\ UNCHANGED << sinkVars, storeVars, readable, mainVars, inputVars, _stop, idx, att_i,
                    msg, session, events, firstStop >>

\* line 198: server.starttls(context=context)
starttls ==
    /\ pc = "starttls" /\ ~aborted
    /\ SessionCall("starttls", "ehlo2", [ pc |-> "exit", exc |-> TRUE ])
    /\ UNCHANGED << sinkVars, storeVars, readable, mainVars, inputVars, _stop, idx, att_i,
                    msg, session, events, firstStop >>

\* line 199: server.ehlo() again, over the encrypted channel
ehlo2 ==
    /\ pc = "ehlo2" /\ ~aborted
    /\ SessionCall("ehlo", "login", [ pc |-> "exit", exc |-> TRUE ])
    /\ UNCHANGED << sinkVars, storeVars, readable, mainVars, inputVars, _stop, idx, att_i,
                    msg, session, events, firstStop >>

\* lines 200-203: username is non-empty here, so login is always called
login ==
    /\ pc = "login" /\ ~aborted
    /\ SessionCall("login", "loop", AfterLoginFailure)
    /\ UNCHANGED << sinkVars, storeVars, readable, mainVars, inputVars, _stop, idx, att_i,
                    msg, session, events, firstStop >>

\* lines 204-207: the for statement takes the next recipient, if any, and the
\* body first reads the flag
loop ==
    /\ pc = "loop" /\ ~aborted
    /\ IF idx >= Len(recipients)
       THEN /\ pc' = AfterLoopEnd
            /\ UNCHANGED << idx, events >>
       ELSE /\ idx' = EnumIdx(idx)
            /\ IF CancelObserved(_stop)
               THEN /\ events' = Append(events, Cancelled)
                    /\ pc' = AfterCancel
               ELSE /\ events' = events
                    /\ pc' = "build"
    /\ UNCHANGED << sinkVars, storeVars, readable, mainVars, inputVars, _stop, att_i, msg,
                    session, exc, calls, firstStop >>

\* lines 158-162: a fresh message for this recipient
build_message ==
    /\ pc = "build" /\ ~aborted
    /\ msg' = BuildHeaders(RunSettings.username, recipients[idx])
    /\ att_i' = 0
    /\ pc' = "attach"
    /\ UNCHANGED << sinkVars, storeVars, readable, mainVars, inputVars, _stop, idx, session,
                    exc, events, calls, firstStop >>

\* lines 163-172: the next attachment is read now, or reported and left out
attach_file ==
    /\ pc = "attach" /\ ~aborted /\ att_i < Len(attachments)
    /\ LET file == attachments[att_i + 1]
       IN  IF CanOpen(file)
           THEN /\ msg' = [ msg EXCEPT !.atts = Append(@, file) ]
                /\ UNCHANGED events
           ELSE /\ events' = events \o OnUnreadable(file)
                /\ UNCHANGED msg
    /\ att_i' = att_i + 1
    /\ UNCHANGED << sinkVars, storeVars, readable, mainVars, inputVars, _stop, pc, idx,
                    session, exc, calls, firstStop >>

\* lines 173, 210: the message is complete and sendmail is called
sendmail_call ==
    /\ pc = "attach" /\ ~aborted /\ att_i = Len(attachments)
    /\ calls' = Append(calls, Call("sendmail", << recipients[idx] >>, msg, "pending"))
    /\ pc' = "send"
    /\ UNCHANGED << sinkVars, storeVars, readable, mainVars, inputVars, _stop, idx, att_i,
                    msg, session, exc, events, firstStop >>

\* lines 210-213: sendmail returns or raises; either way one line is emitted
sendmail_return ==
    /\ pc = "send" /\ ~aborted
    /\ \E ok \in BOOLEAN :
          /\ calls' = [ calls EXCEPT ![Len(calls)].res = IF ok THEN "ok" ELSE "raised" ]
          /\ IF ok
             THEN /\ events' = Append(events,
                                 SentEvent(idx, Len(recipients), recipients[idx]))
                  /\ pc' = "loop" /\ exc' = FALSE
             ELSE /\ events' = Append(events,
                                 FailedEvent(idx, Len(recipients), recipients[idx]))
                  /\ pc' = AfterSendFailure.pc /\ exc' = AfterSendFailure.exc
    /\ UNCHANGED << sinkVars, storeVars, readable, mainVars, inputVars, _stop, idx, att_i,
                    msg, session, firstStop >>

\* line 195, leaving "with server": __exit__ closes the session; an exception
\* in flight goes on to the handler, and so does one that __exit__ raises
exit_session ==
    /\ pc = "exit" /\ ~aborted
    /\ \E ok \in BOOLEAN :
          /\ calls' = Append(calls, Call("close", <<>>, NoMsg,
                                         IF ok THEN "ok" ELSE "raised"))
          /\ pc' = IF exc \/ ~ok THEN "except" ELSE "finally"
    /\ session' = "closed"
    /\ exc' = FALSE
    /\ UNCHANGED << sinkVars, storeVars, readable, mainVars, inputVars, _stop, idx, att_i,
                    msg, events, firstStop >>

\* lines 214-215
except_handler ==
    /\ pc = "except" /\ ~aborted
    /\ events' = Append(events, SmtpError)
    /\ pc' = "finally"
    /\ exc' = FALSE
    /\ log' = log \o DirectLog(SubSeq(events', Len(events) + 1, Len(events')))
    /\ UNCHANGED << delivered, storeVars, readable, mainVars, inputVars, _stop, idx, att_i,
                    msg, session, calls, firstStop >>

\* lines 216-217
finally_finished ==
    /\ pc = "finally" /\ ~aborted
    /\ events' = Append(events, Finished)
    /\ pc' = "done"
    /\ log' = log \o DirectLog(SubSeq(events', Len(events) + 1, Len(events')))
    /\ UNCHANGED << delivered, storeVars, readable, mainVars, inputVars, _stop, idx, att_i,
                    msg, session, exc, calls, firstStop >>

(* ---------------------------- environment ------------------------------ *)
\* an attachment file of the run is removed, or comes back, while a message
\* is being built (the files are opened nowhere else)
file_changes ==
    /\ pc \in {"build", "attach"} /\ ~aborted
    /\ \E f \in { attachments[i] : i \in DOMAIN attachments } :
          readable' = IF f \in readable THEN readable \ {f} ELSE readable \cup {f}
    /\ UNCHANGED << sinkVars, storeVars, mainVars, inputVars, _stop, runVars, events, calls,
                    firstStop >>

(* ----------------------------- MainWindow ------------------------------ *)
\* MainWindow.__init__: no worker, no thread; the stores hold what earlier
\* sessions (or an editor) left in them
InitApp ==
    /\ stored_cfg \in AppSettings /\ stored_emails \in AppStoredLists
    /\ readable \in SUBSET { AllFiles[1] }
    /\ worker = 0 /\ thread = 0 /\ threadRunning = FALSE
    /\ pendingCleanups = 0 /\ aborted = FALSE /\ runs = 0
    /\ log = <<>> /\ delivered = 0
    /\ NoWorkerState

\* the test on_send_requested makes before it starts a run (lines 636-643):
\* there are recipients (an empty subject only asks the user, and a "No"
\* returns like the empty list, changing nothing). self.thread and
\* self.worker are not looked at.
MayStart(emails) == emails # <<>>

\* lines 635-665. With no recipients it returns at once. Otherwise a new
\* SendWorker and a new QThread replace whatever self.worker and self.thread
\* held; a QThread dropped while it still runs ends the process (Qt's
\* "QThread: Destroyed while thread is still running").
on_send_requested ==
    /\ ~aborted /\ runs < MaxRuns
    /\ LET emails == LoadEmails(stored_emails)
       IN  /\ MayStart(emails)
           /\ \E subj \in Subjects, text \in Bodies, atts \in AppAttachmentLists :
                 /\ smtp_cfg' = stored_cfg /\ recipients' = emails
                 /\ subject' = subj /\ body' = text
                 /\ attachments' = atts
    /\ _stop' = FALSE
    /\ pc' = "init" /\ idx' = 0 /\ att_i' = 0 /\ msg' = NoMsg
    /\ session' = "none" /\ exc' = FALSE
    /\ events' = <<>> /\ calls' = <<>> /\ firstStop' = NoStop
    /\ runs' = runs + 1
    /\ worker' = runs + 1 /\ thread' = runs + 1
    /\ aborted' = (thread # 0 /\ threadRunning)
    /\ threadRunning' = TRUE
    /\ log' = <<>> /\ delivered' = 0
    /\ UNCHANGED << storeVars, readable, pendingCleanups >>

\* line 660: finished -> thread.quit, a slot of the QThread object, which
\* lives in the main thread: the call is queued behind the progress
\* emissions already waiting there. The thread's loop ends and the thread
\* emits its own finished (line 662), which waits for the main thread
thread_quit ==
    /\ ~aborted /\ pc = "done" /\ threadRunning
    /\ delivered = Len(SelectSeq(events, HasQueuedSlot))
    /\ threadRunning' = FALSE
    /\ pendingCleanups' = pendingCleanups + 1
    /\ UNCHANGED << sinkVars, storeVars, readable, worker, thread, aborted, runs, inputVars,
                    _stop, runVars, events, calls, firstStop >>

\* lines 667-669: both handles become None, whichever run they belong to
cleanup_thread ==
    /\ ~aborted /\ pendingCleanups > 0
    /\ worker' = 0 /\ thread' = 0
    /\ pendingCleanups' = pendingCleanups - 1
    /\ aborted' = threadRunning
    /\ UNCHANGED << sinkVars, storeVars, readable, threadRunning, runs, inputVars, _stop,
                    runVars, events, calls, firstStop >>

(* ---------------------------- ConfigManager ---------------------------- *)
\* the recipient store as load_emails finds it, and no worker yet
InitEmails ==
    /\ stored_cfg = DefaultSettings /\ stored_emails \in RawLists
    /\ readable = {}
    /\ worker = 0 /\ thread = 0 /\ threadRunning = FALSE
    /\ pendingCleanups = 0 /\ aborted = FALSE /\ runs = 0
    /\ log = <<>> /\ delivered = 0
    /\ NoWorkerState

\* lines 110-118: ConfigManager.save_emails(lst)
save_emails ==
    /\ ~aborted
    /\ \E lst \in StoredLists : stored_emails' = SaveEmails(lst)
    /\ UNCHANGED << sinkVars, stored_cfg, readable, mainVars, inputVars, _stop, runVars,
                    events, calls, firstStop >>

\* SmtpConfigPage.save_config, lines 469-480: the form is written to
\* config.json (the port comes from a spin box, so it is a number)
save_config ==
    /\ ~aborted
    /\ \E cfg \in AppSettings : stored_cfg' = cfg
    /\ UNCHANGED << sinkVars, stored_emails, readable, mainVars, inputVars, _stop,
                    runVars, events, calls, firstStop >>

\* EmailListPage.save_list, lines 296-300: the text box is read and saved
save_list ==
    /\ ~aborted
    /\ \E text \in EditorTexts : stored_emails' = SaveEmails(GetEmails(text))
    /\ UNCHANGED << sinkVars, stored_cfg, readable, mainVars, inputVars, _stop,
                    runVars, events, calls, firstStop >>

\* line 658: the main thread handles the oldest progress emission waiting
\* for it: append_log adds the text to the log box
deliver_progress ==
    /\ ~aborted /\ worker # 0
    /\ delivered < Len(SelectSeq(events, HasQueuedSlot))
    /\ log' = Append(log, LogEntry(SelectSeq(events, HasQueuedSlot)[delivered + 1]))
    /\ delivered' = delivered + 1
    /\ UNCHANGED << storeVars, readable, mainVars, inputVars, _stop, runVars,
                    events, calls, firstStop >>

WorkerStep ==
    \/ run_begin
    \/ connect
    \/ ehlo
    \/ starttls
    \/ ehlo2
    \/ login
    \/ loop
    \/ build_message
    \/ attach_file
    \/ sendmail_call
    \/ sendmail_return
    \/ exit_session
    \/ except_handler
    \/ finally_finished

Next ==
    \/ WorkerStep
    \/ stop
    \/ file_changes

Spec == Init /\ [][Next]_vars

NextBuild ==
    \/ WorkerStep
    \/ file_changes

SpecBuild == InitBuild /\ [][NextBuild]_vars

\* the recipient store on its own: lists are saved, and loaded by
\* on_send_requested (line 636)
NextEmails ==
    \/ save_emails
    \/ on_send_requested

SpecEmails == InitEmails /\ [][NextEmails]_vars

NextApp ==
    \/ save_config
    \/ save_list
    \/ on_send_requested
    \/ deliver_progress
    \/ thread_quit
    \/ cleanup_thread
    \/ WorkerStep

SpecApp == InitApp /\ [][NextApp]_vars

(* ------------------------- reading the histories ----------------------- *)
Range(s) == { s[i] : i \in DOMAIN s }
IsOutcome(e) == e.kind \in {"sent", "failed"}
Outcomes == SelectSeq(events, IsOutcome)
IsSend(c) == c.op = "sendmail"
Sends == SelectSeq(calls, IsSend)
IsClose(c) == c.op = "close"
Closes == SelectSeq(calls, IsClose)
IsError(e) == e.sig = "error"
Errors == SelectSeq(events, IsError)
IsFinished(e) == e = Finished
IsCancelled(e) == e = Cancelled
NotAttachmentLine(e) == e.kind # "attachment"
Pos(s, x) == CHOOSE i \in DOMAIN s : s[i] = x
N == Len(recipients)
OpeningOps == {"SMTP", "SMTP_SSL", "ehlo", "starttls", "login"}
OpeningFailed == \E i \in DOMAIN calls :
                    calls[i].op \in OpeningOps /\ calls[i].res = "raised"
Connected == \E i \in DOMAIN calls :
                calls[i].op \in {"SMTP", "SMTP_SSL"} /\ calls[i].res = "ok"
InBody == pc \in {"build", "attach", "send"}
\* run() has returned or raised
RunEnded == pc \in {"done", "raised"}
\* the outcome lines as the claims word them: "[i/N] Sent to r", "[i/N] Failed to r"
SentLine(i, n, r) ==
    [ sig |-> "progress", kind |-> "sent", idx |-> i, total |-> n, who |-> r ]
FailedLine(i, n, r) ==
    [ sig |-> "progress", kind |-> "failed", idx |-> i, total |-> n, who |-> r ]

(* ------------------------------- claims -------------------------------- *)

\* C1: every run of SendWorker.run emits Finished exactly once and nothing
\* after it: no event follows a Finished, and a run that has ended (returned
\* or raised) has emitted Finished as its last event.
C1_FinishedExactlyOnce ==
    /\ \A i \in DOMAIN events : events[i] = Finished => i = Len(events)
    /\ RunEnded => (events # <<>> /\ events[Len(events)] = Finished)

\* C2: a send that raised for recipient i is reported as Failed(i) and does
\* not end the loop: the session stays open while the loop runs, and a run
\* that ends without a cancellation has one outcome for every recipient, in
\* order.
C2_FailureDoesNotAbort ==
    \A k \in DOMAIN calls :
       (calls[k].op = "sendmail" /\ calls[k].res = "raised") =>
          LET i == Pos(recipients, calls[k].to[1])
          IN  /\ FailedLine(i, N, recipients[i]) \in Range(events)
              /\ (pc \in {"loop", "build", "attach", "send"} => session = "open")
              /\ (pc = "done" /\ Cancelled \notin Range(events)) =>
                    /\ Len(Outcomes) = N
                    /\ \A j \in 1..N : /\ Outcomes[j].idx = j
                                       /\ Outcomes[j].who = recipients[j]
                    /\ Len(Sends) = N

\* C2 witness: recipients [A, B], the send to A raised and the send to B
\* succeeded: the outcomes are [Failed(A), Sent(B)].
C2_Witness ==
    /\ pc = "done" /\ recipients = << AddrA, AddrB >>
    /\ Outcomes = << FailedLine(1, 2, AddrA), SentLine(2, 2, AddrB) >>

\* C3: with complete settings, every transport call succeeding and stop()
\* never called, a finished run has emitted exactly N outcome lines, all
\* Sent, the i-th labelled [i/N] for the i-th recipient, and then Finished.
C3_AllSentInOrder ==
    ( /\ pc = "done"
      /\ ~SettingsIncomplete(smtp_cfg)
      /\ \A k \in DOMAIN calls : calls[k].res = "ok"
      /\ firstStop = NoStop )
    => /\ Outcomes = [ i \in 1..N |-> SentLine(i, N, recipients[i]) ]
       /\ SelectSeq(events, NotAttachmentLine) = Outcomes \o << Finished >>

\* C3 witness: a finished two-recipient run in which nothing failed and
\* nobody cancelled.
C3_Witness ==
    /\ pc = "done" /\ N = 2 /\ firstStop = NoStop
    /\ ~SettingsIncomplete(smtp_cfg)
    /\ \A k \in DOMAIN calls : calls[k].res = "ok"
    /\ Len(Outcomes) = 2

\* C4: the flag is read at the start of each iteration. If stop() was called
\* before iteration k began, the body of k is never entered; and once the
\* cancellation line is out for iteration k (idx = k), recipients 1..k-1 have
\* exactly one outcome each, recipients k..N have no outcome and no sendmail
\* call, the loop is over, and the cancellation line precedes Finished.
C4_CancelAtIterationStart ==
    /\ (InBody /\ firstStop # NoStop) =>
          (firstStop.idx = idx /\ firstStop.pc \in {"build", "attach", "send"})
    /\ Cancelled \in Range(events) =>
          /\ Len(SelectSeq(events, IsCancelled)) = 1
          /\ Len(Outcomes) = idx - 1
          /\ \A j \in 1..(idx - 1) : /\ Outcomes[j].idx = j
                                     /\ Outcomes[j].who = recipients[j]
          /\ Len(Sends) = idx - 1
          /\ \A j \in idx..N : \A c \in Range(calls) : c.to # << recipients[j] >>
          /\ pc \in {"exit", "except", "finally", "done"}
          /\ pc = "done" =>
                (/\ events[Len(events)] = Finished
                 /\ Pos(events, Cancelled) < Len(events))

\* C4 witness: the flag was seen at the start of iteration 2 of 2; the run
\* has finished with one outcome.
C4_Witness ==
    /\ pc = "done" /\ Cancelled \in Range(events)
    /\ idx = 2 /\ N = 2 /\ Len(Outcomes) = 1

\* C5 (as claimed): every finished run that attempted a connection closed
\* the session exactly once.
C5_ClosedOncePerRun ==
    (pc = "done" /\ calls # <<>>) => Len(Closes) = 1

\* C5 (amended): the session is closed exactly once in every run whose
\* connection was opened, and never in a run that has no session (settings
\* incomplete, or the connecting constructor raised); it is never closed
\* twice, and it is not open when Finished is emitted.
C5_ClosedOnceIfOpened ==
    /\ Len(Closes) <= 1
    /\ (session = "closed") <=> (Len(Closes) = 1)
    /\ (session = "none") <=> ~Connected
    /\ Finished \in Range(events) =>
          /\ session # "open"
          /\ Len(Closes) = IF Connected THEN 1 ELSE 0

\* C5 witness: login raised, and the finished run closed the session once.
C5_Witness ==
    /\ pc = "done" /\ Len(Closes) = 1
    /\ \E k \in DOMAIN calls : calls[k].op = "login" /\ calls[k].res = "raised"

\* C6: with host, username or password empty, the run emits the
\* settings-incomplete error and then Finished, and calls the transport never.
C6_IncompleteSettingsReported ==
    /\ SettingsIncomplete(smtp_cfg) => (calls = <<>> /\ Outcomes = <<>>)
    /\ (SettingsIncomplete(smtp_cfg) /\ RunEnded) =>
          events = << IncompleteError, Finished >>

\* C7: while a run is in flight (its worker constructed, Finished not yet
\* emitted), no step replaces or clears self.worker or self.thread, and no
\* further worker is constructed.
C7_ConcurrentStartRejected ==
    [][ (thread # 0 /\ pc \in {"init", "connect", "ehlo", "starttls", "ehlo2",
                               "login", "loop", "build", "attach", "send",
                               "exit", "except", "finally"})
        => (worker' = worker /\ thread' = thread /\ runs' = runs) ]_vars

\* C8: stop() is a no-op outside an active run: a run whose only stop() calls
\* came before run() was entered emits what it would have emitted without
\* them, hence no cancellation line; the flag, once set, stays set.
C8_StopIsNoOpOutsideRun ==
    /\ _stop <=> (firstStop # NoStop)
    /\ firstStop.pc = "init" => Cancelled \notin Range(events)

\* C9: a stop() that arrives while the send for recipient k is in flight does
\* not interrupt it: once that send has returned, recipient k has its one
\* outcome, matching how sendmail ended; the flag is acted on only at the
\* start of iteration k+1, and no later recipient gets a sendmail call.
C9_CancelIsCooperative ==
    firstStop.pc = "send" =>
       LET k == firstStop.idx
       IN  /\ Len(Sends) = k
           /\ idx \in {k, k + 1}
           /\ (pc = "send" /\ idx = k) => Len(Outcomes) = k - 1
           /\ ~(pc = "send" /\ idx = k) =>
                 /\ Len(Outcomes) = k
                 /\ Outcomes[k] = IF Sends[k].res = "ok"
                                  THEN SentLine(k, N, recipients[k])
                                  ELSE FailedLine(k, N, recipients[k])
           /\ (Cancelled \in Range(events)) <=> (idx = k + 1)
           /\ (pc = "done" /\ k < N) => Cancelled \in Range(events)

\* C9 witness: stop() came during the send to recipient 1 of 2; the run
\* finished with that one outcome and the cancellation line.
C9_Witness ==
    /\ firstStop = [ pc |-> "send", idx |-> 1 ] /\ N = 2
    /\ pc = "done" /\ Len(Outcomes) = 1 /\ Cancelled \in Range(events)

\* C10: when the constructor, a greeting, the STARTTLS upgrade or login
\* raised, no sendmail call is made and no outcome line is emitted; the
\* error is emitted once, and the finished run's events are that error and
\* Finished.
C10_OpeningFailureIsFatal ==
    OpeningFailed =>
       /\ Sends = <<>> /\ Outcomes = <<>>
       /\ Len(Errors) <= 1
       /\ pc \in {"exit", "except", "finally", "done"}
       /\ pc = "done" => events = << SmtpError, Finished >>

\* C10 witness: the STARTTLS upgrade raised and the run has finished.
C10_Witness ==
    /\ pc = "done"
    /\ \E k \in DOMAIN calls : calls[k].op = "starttls" /\ calls[k].res = "raised"

\* C11: once the loop has begun, nothing but an observed cancellation ends
\* it early, and no error event follows a per-recipient outcome line in the
\* run's events, whatever happens when the session is closed.
C11_NoFatalAfterOutcome ==
    /\ \A i, j \in DOMAIN events :
          (i < j /\ IsOutcome(events[i])) => ~IsError(events[j])
    /\ (pc = "done" /\ Sends # <<>> /\ Cancelled \notin Range(events)) =>
          Len(Outcomes) = N

\* C12: the calls on the transport come in the order connect, greeting,
\* (upgrade, greeting), login, sends, close. The connecting constructor is
\* the first call and the only one of its kind, the greeting is the second,
\* every sendmail comes after a login that succeeded (and after nothing that
\* raised but an earlier sendmail), and a close is the last call of the run.
C12_SessionStepsInOrder ==
    LET n == Len(calls)
        upgraded == n >= 3 /\ calls[3].op = "starttls"
        loginAt == IF upgraded THEN 5 ELSE 3
    IN  \A k \in 1..n :
           /\ (calls[k].op \in {"SMTP", "SMTP_SSL"}) <=> (k = 1)
           /\ k > 1 => calls[1].res = "ok"
           /\ k = 2 => calls[k].op \in {"ehlo", "close"}
           /\ calls[k].op = "ehlo" => (k = 2 \/ (k = 4 /\ upgraded))
           /\ calls[k].op = "starttls" => k = 3
           /\ calls[k].op = "login" => k = loginAt
           /\ calls[k].op = "sendmail" =>
                 /\ k > loginAt
                 /\ calls[loginAt].op = "login"
                 /\ \A j \in 1..loginAt : calls[j].res = "ok"
                 /\ \A j \in (loginAt + 1)..(k - 1) : calls[j].op = "sendmail"
           /\ calls[k].op = "close" => (k = n /\ session = "closed")
           /\ (k < n /\ calls[k].res = "raised") =>
                 (calls[k].op = "sendmail" \/ calls[k + 1].op = "close")

\* C12 witness: a finished run that went through every step: connect,
\* greeting, upgrade, greeting, login, two sends, close.
C12_Witness ==
    /\ pc = "done"
    /\ [ k \in DOMAIN calls |-> calls[k].op ] =
          << "SMTP", "ehlo", "starttls", "ehlo", "login", "sendmail", "sendmail",
             "close" >>

\* C13: starttls is called only when use_tls is set and use_ssl is not, and
\* then it is the call after the first greeting; a starttls that returned
\* is followed at once by another greeting; with both flags set, or use_tls
\* unset, the call after the greeting is login. The constructor is SMTP_SSL
\* exactly when use_ssl is set, so no session gets both.
C13_StartTlsIffSelected ==
    LET n == Len(calls)
        selected == smtp_cfg.use_tls /\ ~smtp_cfg.use_ssl
        issued == \E k \in 1..n : calls[k].op = "starttls"
    IN  /\ issued => selected
        /\ (n >= 3 /\ calls[2].res = "ok") =>
              calls[3].op = IF selected THEN "starttls" ELSE "login"
        /\ \A k \in 1..n :
              (calls[k].op = "starttls" /\ calls[k].res = "ok") =>
                 IF k < n THEN calls[k + 1].op = "ehlo" ELSE pc = "ehlo2"
        /\ n >= 1 => ((calls[1].op = "SMTP_SSL") <=> smtp_cfg.use_ssl)
        /\ ~(issued /\ calls[1].op = "SMTP_SSL")

\* C13 witness: both flags set; the finished run connected with SMTP_SSL,
\* logged in and sent, and never called starttls.
C13_Witness ==
    /\ pc = "done" /\ smtp_cfg.use_tls /\ smtp_cfg.use_ssl
    /\ Len(calls) >= 4
    /\ calls[1].op = "SMTP_SSL" /\ calls[3].op = "login" /\ calls[3].res = "ok"
    /\ calls[4].op = "sendmail"
    /\ \A k \in DOMAIN calls : calls[k].op # "starttls"

\* the "Attachment error: <file> ..." line as the claims word it
AttachmentLine(file) ==
    [ sig |-> "progress", kind |-> "attachment", idx |-> 0, total |-> 0,
      who |-> file ]
IsAttachmentLine(e) == e.kind = "attachment"
\* where the j-th outcome line stands in events
OutcomePos(j) ==
    CHOOSE p \in DOMAIN events :
       /\ IsOutcome(events[p])
       /\ Len(SelectSeq(SubSeq(events, 1, p), IsOutcome)) = j
\* the events of iteration j, before its outcome line
IterationLines(j) ==
    SubSeq(events,
           IF j = 1 THEN 1 ELSE OutcomePos(j - 1) + 1,
           IF j <= Len(Outcomes) THEN OutcomePos(j) - 1 ELSE Len(events))

\* C14: when the file _build_message is about to read cannot be opened,
\* that step emits one attachment line naming the file, adds nothing to the
\* message, raises nothing and goes on building. Hence for every recipient
\* the message handed to sendmail holds, in order, the attachments that were
\* read, each file left out has exactly one line in that iteration, and the
\* iteration has no error event.
C14_UnreadableAttachmentSkipped ==
    /\ [][ ( /\ pc = "attach" /\ att_i < Len(attachments)
             /\ att_i' = att_i + 1
             /\ attachments[att_i + 1] \notin readable )
           => /\ events' = Append(events, AttachmentLine(attachments[att_i + 1]))
              /\ msg' = msg
              /\ pc' = "attach" /\ exc' = exc /\ session' = "open"
              /\ calls' = calls ]_vars
    /\ [] \A j \in 1..Len(Sends) :
             LET m == Sends[j].msg
                 Kept(f) == f \in Range(m.atts)
                 LeftOut(f) == f \notin Range(m.atts)
                 lines == SelectSeq(IterationLines(j), IsAttachmentLine)
             IN  /\ Sends[j].to = << recipients[j] >>
                 /\ m.atts = SelectSeq(attachments, Kept)
                 /\ lines = [ i \in 1..Len(SelectSeq(attachments, LeftOut)) |->
                                AttachmentLine(SelectSeq(attachments, LeftOut)[i]) ]
                 /\ \A i \in DOMAIN IterationLines(j) :
                       ~IsError(IterationLines(j)[i])

\* C14 witness: attachments [f1, f2]; for the one recipient f1 could not be
\* read and f2 could: one line names f1, and the message was sent with f2
\* alone.
C14_Witness ==
    /\ pc = "done" /\ N = 1 /\ Len(attachments) = 2
    /\ Len(Sends) = 1 /\ Sends[1].res = "ok"
    /\ Sends[1].msg.atts = << attachments[2] >>
    /\ events = << AttachmentLine(attachments[1]), SentLine(1, 1, recipients[1]),
                   Finished >>

\* C20: every sendmail call hands over one message for one recipient: for
\* the j-th call the envelope list is the j-th recipient alone and so is the
\* message's To, while From is the username and Subject and body are the
\* run's subject and body, hence the same in every message of the run.
C20_OneMessagePerRecipient ==
    \A j \in 1..Len(Sends) :
       /\ j <= N
       /\ Sends[j].to = << recipients[j] >>
       /\ Sends[j].msg.To = recipients[j]
       /\ Sends[j].msg.From = smtp_cfg.username
       /\ Sends[j].msg.Subject = subject
       /\ Sends[j].msg.body = body
       /\ \A i \in 1..Len(Sends) :
             /\ Sends[i].msg.From = Sends[j].msg.From
             /\ Sends[i].msg.Subject = Sends[j].msg.Subject
             /\ Sends[i].msg.body = Sends[j].msg.body
             /\ i # j => Sends[i].msg.To # Sends[j].msg.To

\* C20 witness: a finished run for two recipients with an empty subject:
\* two sendmail calls, the first for the first recipient, the second for
\* the second.
C20_Witness ==
    /\ pc = "done" /\ N = 2 /\ subject = "" /\ Len(Sends) = 2
    /\ Sends[1].to = << recipients[1] >> /\ Sends[2].to = << recipients[2] >>
    /\ Sends[1].msg.To # Sends[2].msg.To

\* C17: whatever fails and whenever stop() is called, the outcome lines of
\* a run are a prefix of the recipient list: there are at most N of them,
\* and the j-th is a Sent or a Failed line labelled [j/N] for the j-th
\* recipient, so no recipient has two and none is skipped or out of place.
C17_OutcomesArePrefix ==
    /\ Len(Outcomes) <= N
    /\ \A j \in 1..Len(Outcomes) :
          /\ Outcomes[j] \in { SentLine(j, N, recipients[j]),
                               FailedLine(j, N, recipients[j]) }
          /\ \A i \in 1..Len(Outcomes) :
                i # j => Outcomes[i].who # Outcomes[j].who

\* C17 witness: two recipients; the send to the first failed, stop() was
\* seen before the second: the outcomes are [Failed(1/2)] alone.
C17_Witness ==
    /\ pc = "done" /\ N = 2 /\ Cancelled \in Range(events)
    /\ Outcomes = << FailedLine(1, 2, recipients[1]) >>

\* C18: a worker constructed with an empty recipient list, with settings
\* that are complete (host, username and password non-empty, a numeric
\* port) and a transport on which every call succeeds, makes no sendmail
\* call and emits no outcome line; when it has finished it has connected,
\* greeted (upgraded and greeted again, if STARTTLS is selected), logged in
\* and closed the session once, and its only event is Finished.
C18_EmptyListOpensAndCloses ==
    ( /\ recipients = <<>>
      /\ ~SettingsIncomplete(smtp_cfg) /\ IntParses(smtp_cfg.smtp_port)
      /\ \A k \in DOMAIN calls : calls[k].res = "ok" )
    => /\ Sends = <<>> /\ Outcomes = <<>>
       /\ pc # "raised"
       /\ pc = "done" =>
             /\ [ k \in DOMAIN calls |-> calls[k].op ] =
                   IF smtp_cfg.use_ssl
                   THEN << "SMTP_SSL", "ehlo", "login", "close" >>
                   ELSE IF smtp_cfg.use_tls
                   THEN << "SMTP", "ehlo", "starttls", "ehlo", "login", "close" >>
                   ELSE << "SMTP", "ehlo", "login", "close" >>
             /\ session = "closed"
             /\ events = << Finished >>

\* C18 witness: the empty-list run has finished over a transport that never
\* failed: the session was opened and closed, and Finished is the only event.
C18_Witness ==
    /\ pc = "done" /\ recipients = <<>>
    /\ ~SettingsIncomplete(smtp_cfg)
    /\ \A k \in DOMAIN calls : calls[k].res = "ok"
    /\ Len(Closes) = 1 /\ events = << Finished >>

\* a text with no whitespace at either end, and not empty
Trimmed(t) == t # <<>> /\ t[1] \notin Whitespace /\ t[Len(t)] \notin Whitespace
\* how many whitespace characters r begins with, and ends with
Leading(r) ==
    CHOOSE a \in 0..Len(r) :
       /\ \A i \in 1..a : r[i] \in Whitespace
       /\ (a < Len(r) => r[a + 1] \notin Whitespace)
Trailing(r) ==
    CHOOSE b \in 0..Len(r) :
       /\ \A i \in (Len(r) - b + 1)..Len(r) : r[i] \in Whitespace
       /\ (b < Len(r) => r[Len(r) - b] \notin Whitespace)
\* the part of r between its leading and its trailing whitespace
Trim(r) ==
    IF Leading(r) = Len(r) THEN <<>>
    ELSE SubSeq(r, Leading(r) + 1, Len(r) - Trailing(r))
\* the first place in raw whose trimmed entry is a
FirstAt(raw, a) ==
    CHOOSE k \in DOMAIN raw :
       Trim(raw[k]) = a /\ \A m \in 1..(k - 1) : Trim(raw[m]) # a
\* out is raw normalised: trimmed non-empty entries, none twice, exactly the
\* addresses of raw, in the order of their first occurrences
IsNormalisationOf(out, raw) ==
    /\ \A i \in DOMAIN out : Trimmed(out[i])
    /\ \A i, j \in DOMAIN out : i # j => out[i] # out[j]
    /\ Range(out) = { Trim(raw[k]) : k \in DOMAIN raw } \ { <<>> }
    /\ \A i, j \in DOMAIN out :
          i < j <=> FirstAt(raw, out[i]) < FirstAt(raw, out[j])

\* C19: the list on_send_requested gets from load_emails is the stored list
\* normalised (each entry trimmed, empty ones dropped, a repeated address
\* kept at its first place only); whatever save_emails writes is a
\* normalised list; and normalising either again changes nothing.
C19_RecipientsNormalised ==
    [][ /\ runs' # runs =>
             /\ IsNormalisationOf(recipients', stored_emails)
             /\ LoadEmails(recipients') = recipients'
        /\ stored_emails' # stored_emails =>
             /\ IsNormalisationOf(stored_emails', stored_emails')
             /\ LoadEmails(stored_emails') = stored_emails'
             /\ SaveEmails(stored_emails') = stored_emails' ]_vars

\* C19 witness: the store holds [" a@x", "b@x ", "a@x"] and the worker was
\* given [a@x, b@x].
C19_Witness ==
    /\ pc = "init"
    /\ stored_emails = << <<" ">> \o AddrA, AddrB \o <<" ">>, AddrA >>
    /\ recipients = << AddrA, AddrB >>

\* a run is in flight: its worker is constructed and run() has not ended
InFlight == pc \notin {"none", "done", "raised"}

\* C15: the worker's settings and recipient list are those the stores held
\* when on_send_requested built it; a step that changes config.json or
\* emails.json while the run is in flight changes nothing of the worker;
\* and what the run does follows the captured values, whatever the stores
\* hold by then: the constructor and the upgrade are chosen by the captured
\* flags, From is the captured username, and the j-th send and the j-th
\* outcome are for the j-th captured recipient, with the captured length as
\* the total.
C15_RunUsesSnapshot ==
    /\ [][ /\ runs' # runs =>
                /\ smtp_cfg' = stored_cfg
                /\ recipients' = LoadEmails(stored_emails)
           /\ (InFlight /\ (stored_cfg' # stored_cfg \/ stored_emails' # stored_emails))
                => UNCHANGED << inputVars, _stop, runVars, events, calls >> ]_vars
    /\ [] /\ calls # <<>> =>
               /\ calls[1].op = IF smtp_cfg.use_ssl THEN "SMTP_SSL" ELSE "SMTP"
               /\ smtp_cfg.smtp_host # "" /\ smtp_cfg.username # ""
               /\ smtp_cfg.password # ""
          /\ (\E k \in DOMAIN calls : calls[k].op = "starttls") =>
               (smtp_cfg.use_tls /\ ~smtp_cfg.use_ssl)
          /\ (\E i \in DOMAIN events : events[i].kind = "incomplete") =>
               (smtp_cfg.smtp_host = "" \/ smtp_cfg.username = ""
                  \/ smtp_cfg.password = "")
          /\ \A j \in 1..Len(Sends) :
                /\ Sends[j].to = << recipients[j] >>
                /\ Sends[j].msg.From = smtp_cfg.username
          /\ \A j \in 1..Len(Outcomes) :
                /\ Outcomes[j].who = recipients[j]
                /\ Outcomes[j].total = Len(recipients)

\* C15 witness: the first run is sending to the second of its two
\* recipients over STARTTLS, while config.json now asks for implicit TLS
\* and emails.json is empty.
C15_Witness ==
    /\ runs = 1 /\ pc = "send" /\ idx = 2 /\ N = 2
    /\ ~smtp_cfg.use_ssl /\ stored_cfg.use_ssl
    /\ stored_emails = <<>>
    /\ \E k \in DOMAIN calls : calls[k].op = "starttls"

\* C16: the log box holds the run's emissions in the order they were
\* emitted: at every moment its lines are the lines of the first emissions,
\* in order, and the "Done." line is there only when every progress and
\* error line of the run is, before it.
C16_SinkSeesEmissionOrder ==
    /\ Len(log) <= Len(events)
    /\ \A i \in DOMAIN log : log[i] = LogEntry(events[i])
    /\ \A i \in DOMAIN log :
          log[i] = LogEntry(Finished) => (i = Len(log) /\ i = Len(events))

\* C21: attachments are read afresh for each recipient. Building a message
\* starts with no attachment; each file of the list is then taken in list
\* order and is added exactly when it can be read at that moment, whatever
\* happened to it for an earlier message; the message is handed to sendmail
\* as built; and a file that is removed or comes back changes neither the
\* message being built nor any message already handed over. Hence a
\* message holds, in list order, the files readable when they were read for
\* it, and a file missing from one message is not missing from the others.
C21_AttachmentsReadAfresh ==
    /\ [][ /\ (pc = "build" /\ pc' = "attach") =>
                 (msg'.atts = <<>> /\ att_i' = 0)
           /\ (pc = "attach" /\ att_i' # att_i) =>
                 /\ att_i' = att_i + 1
                 /\ msg'.atts = IF attachments[att_i + 1] \in readable
                                THEN Append(msg.atts, attachments[att_i + 1])
                                ELSE msg.atts
           /\ (pc = "attach" /\ pc' = "send") =>
                 /\ att_i = Len(attachments)
                 /\ Len(calls') = Len(calls) + 1
                 /\ calls'[Len(calls')].op = "sendmail"
                 /\ calls'[Len(calls')].msg.atts = msg.atts
           /\ Len(calls') >= Len(calls)
           /\ \A k \in DOMAIN calls :
                 calls[k].op = "sendmail" => calls'[k].msg = calls[k].msg
           /\ readable' # readable => (msg' = msg /\ calls' = calls)
           /\ attachments' = attachments ]_vars
    /\ [] ( pc = "attach" =>
              LET seen == SubSeq(attachments, 1, att_i)
                  Kept(f) == f \in Range(msg.atts)
              IN  msg.atts = SelectSeq(seen, Kept) )

\* C21 witness: attachments [f1, f2] and two recipients; f1 was removed and
\* f2 came back between the two messages: the first message holds f1 alone
\* and the second f2 alone, and both were sent.
C21_Witness ==
    /\ pc = "done" /\ N = 2 /\ Len(attachments) = 2 /\ Len(Sends) = 2
    /\ Sends[1].res = "ok" /\ Sends[2].res = "ok"
    /\ Sends[1].msg.atts = << attachments[1] >>
    /\ Sends[2].msg.atts = << attachments[2] >>

\* the flag was true when some iteration began: stop() was first called
\* before the loop was left, and the for statement has taken a recipient
\* since (idx counts the recipients taken)
FlagSeen ==
    /\ firstStop # NoStop
    /\ firstStop.pc \in {"init", "connect", "ehlo", "starttls", "ehlo2", "login",
                         "loop", "build", "attach", "send"}
    /\ idx > firstStop.idx
\* stop() first came when the last recipient had been taken, or in a run
\* with no recipients
StoppedLate == firstStop # NoStop /\ firstStop.idx = N

\* C22: the cancellation line has been emitted exactly when the flag was
\* true at the start of some iteration; a run whose first stop() came
\* during or after the last recipient's iteration, or that has no
\* recipients, emits no cancellation line, and when it has ended it has N
\* outcomes and Finished as its last event.
C22_CancelLineIffFlagSeen ==
    /\ (Cancelled \in Range(events)) <=> FlagSeen
    /\ StoppedLate =>
          /\ Cancelled \notin Range(events)
          /\ RunEnded =>
                /\ Len(Outcomes) = N
                /\ events # <<>> /\ events[Len(events)] = Finished

====
